---- MODULE Spec2Model ----
(***************************************************************************)
(* Contact book: the name prefix-search index (fast_lookup.py) and the     *)
(* ContactBookDB operations (db.py) that keep it in step with the store.   *)
(*                                                                         *)
(* A text is a sequence of one-character strings.  None is Python's None.  *)
(* The trie is a set of cells.  A cell is one Python dict object together  *)
(* with the set of trie keys that hold a reference to it:                  *)
(*    [keys |-> set of tokens, vals |-> function id -> full name].         *)
(* Two keys of one cell alias the same dict, as `self.trie[name] =         *)
(* value_dict` stores a reference and not a copy.                          *)
(*                                                                         *)
(* The store is SQLAlchemy behind one ContactBookDB object.  Of it the     *)
(* model keeps the committed rows, the rows the object's session holds     *)
(* uncommitted, and the ids handed out, which are never handed out twice.  *)
(* A Person passed to save_object is its id and its attribute values.  A   *)
(* commit may fail; the transaction is then lost.                          *)
(***************************************************************************)
EXTENDS Integers, Sequences, FiniteSets, TLC

(***************************************************************************)
(* Bounds.                                                                 *)
(***************************************************************************)
\* person ids the store hands out
MaxId == 2

\* groups the store holds
MaxGroups == 1

\* commits of the store that fail in one run
MaxFaults == 1

\* length of the query texts examined
MaxTextLen == 3

(***************************************************************************)
(* Texts.                                                                  *)
(***************************************************************************)
None == <<"None">>

Space == " "

\* str.lower() on one character
LowerChar(c) == CASE c = "A" -> "a" [] c = "B" -> "b" [] c = "C" -> "c" [] c = "H" -> "h"
                  [] OTHER -> c

\* str.lower()
lower(s) == [i \in 1..Len(s) |-> LowerChar(s[i])]

\* code point order of the characters in use (ASCII)
Ord(c) == CASE c = " " -> 32 [] c = "," -> 44 [] c = "A" -> 65 [] c = "B" -> 66
            [] c = "C" -> 67 [] c = "H" -> 72
            [] c = "a" -> 97 [] c = "b" -> 98 [] c = "c" -> 99 [] c = "d" -> 100
            [] c = "e" -> 101 [] c = "f" -> 102 [] c = "h" -> 104 [] c = "i" -> 105
            [] c = "j" -> 106 [] c = "k" -> 107 [] OTHER -> 0

\* s < t in Python's string order
RECURSIVE StrLess(_, _)
StrLess(s, t) ==
    IF t = <<>> THEN FALSE
    ELSE IF s = <<>> THEN TRUE
    ELSE IF Head(s) = Head(t) THEN StrLess(Tail(s), Tail(t))
    ELSE Ord(Head(s)) < Ord(Head(t))

\* t.startswith(p)
StartsWith(t, p) == Len(p) <= Len(t) /\ SubSeq(t, 1, Len(p)) = p

\* Python truthiness of an attribute value: neither None nor ''
Truthy(v) == v # None /\ v # <<>>

\* str.split(): the maximal runs of non-whitespace characters, in order
RECURSIVE SplitFrom(_, _, _)
SplitFrom(s, i, cur) ==
    IF i > Len(s) THEN (IF cur = <<>> THEN <<>> ELSE <<cur>>)
    ELSE IF s[i] = Space
         THEN (IF cur = <<>> THEN <<>> ELSE <<cur>>) \o SplitFrom(s, i + 1, <<>>)
         ELSE SplitFrom(s, i + 1, Append(cur, s[i]))

split(s) == SplitFrom(s, 1, <<>>)

\* ' '.join(parts)
RECURSIVE JoinSpace(_)
JoinSpace(parts) ==
    IF parts = <<>> THEN <<>>
    ELSE IF Len(parts) = 1 THEN parts[1]
    ELSE parts[1] \o <<Space>> \o JoinSpace(Tail(parts))

(***************************************************************************)
(* models.Person: the five name attributes and the derived full_name.      *)
(***************************************************************************)
\* the attribute values in the order add_person and remove_person visit them
AttrValues(p) == <<p.title, p.first_name, p.middle_name, p.last_name, p.suffix>>

\* Person.full_name
full_name(p) ==
    LET named == SelectSeq(<<p.title, p.first_name, p.middle_name, p.last_name>>,
                           LAMBDA s : s # None)
    IN  JoinSpace(named) \o (IF Truthy(p.suffix) THEN <<",", Space>> \o p.suffix ELSE <<>>)

(***************************************************************************)
(* FastTrieLookup.                                                         *)
(***************************************************************************)
EmptyTrie == {}

EmptyDict == <<>>

\* the keys for which `name in self.trie` is true
TrieKeys(T) == UNION {c.keys : c \in T}

\* the cell whose dict `self.trie[t]` returns
CellOf(T, t) == CHOOSE c \in T : t \in c.keys

\* self.trie[t]
TrieGet(T, t) == CellOf(T, t).vals

\* an update that keeps the value of a key the dict already holds
DictPut_keep(d, id, name) == [k \in DOMAIN d \cup {id} |-> IF k \in DOMAIN d THEN d[k] ELSE name]

\* dict.update with the one-entry dict {id: name}
DictPut(d, id, name) == [k \in DOMAIN d \cup {id} |-> IF k = id THEN name ELSE d[k]]

\* dict.pop(key, None)
DictPop(d, key) == [k \in DOMAIN d \ {key} |-> d[k]]

\* FastTrieLookup._add_name lines 34-38 for the folded name t, where
\* value_dict is the dict {id: fullname} of the running add_person and
\* st.own are the keys that already hold a reference to that dict
AddNameAt(st, t, id, fullname) ==
    LET T == st.trie
    IN  IF t \in TrieKeys(T)
        THEN LET c == CellOf(T, t)
             IN  [trie |-> (T \ {c}) \cup {[keys |-> c.keys, vals |-> DictPut(c.vals, id, fullname)]},
                  own  |-> st.own]
        ELSE LET old  == {c \in T : c.keys \cap st.own # {}}
                 dict == IF old = {} THEN DictPut(EmptyDict, id, fullname)
                         ELSE (CHOOSE c \in old : TRUE).vals
             IN  [trie |-> (T \ old) \cup {[keys |-> st.own \cup {t}, vals |-> dict]},
                  own  |-> st.own \cup {t}]

\* _add_name without line 33: the key is the name as given
_add_name_unfolded(st, name, id, fullname) == AddNameAt(st, name, id, fullname)

\* FastTrieLookup._add_name(name, value_dict)
_add_name(st, name, id, fullname) == AddNameAt(st, lower(name), id, fullname)

\* FastTrieLookup._delete_value_for_name(name, value_dict_key); st.raised
\* records a KeyError that has propagated
_delete_value_for_name(st, name, key) ==
    LET t == lower(name)
        T == st.trie
    IN  IF t \in TrieKeys(T)
        THEN LET c      == CellOf(T, t)
                 values == DictPop(c.vals, key)
             IN  IF values # EmptyDict
                 THEN [trie |-> (T \ {c}) \cup {[keys |-> c.keys, vals |-> values]},
                       raised |-> FALSE]
                 ELSE [trie |-> (T \ {c}) \cup
                                  (IF c.keys = {t} THEN {}
                                   ELSE {[keys |-> c.keys \ {t}, vals |-> values]}),
                       raised |-> FALSE]
        ELSE [trie |-> T, raised |-> TRUE]

\* FastTrieLookup.add_person, attribute by attribute
RECURSIVE AddAttrs(_, _, _, _)
AddAttrs(st, attrs, id, fullname) ==
    IF attrs = <<>> THEN st
    ELSE AddAttrs(IF Truthy(Head(attrs)) THEN _add_name(st, Head(attrs), id, fullname) ELSE st,
                  Tail(attrs), id, fullname)

\* add_person that caches the first name in place of person.full_name
add_person_first_name(T, p) ==
    AddAttrs([trie |-> T, own |-> {}], AttrValues(p), p.id, p.first_name).trie

add_person(T, p) ==
    AddAttrs([trie |-> T, own |-> {}], AttrValues(p), p.id, full_name(p)).trie

\* FastTrieLookup.remove_person, attribute by attribute; the first KeyError
\* ends the call and keeps what the earlier attributes have done
RECURSIVE RemoveAttrs(_, _, _)
RemoveAttrs(st, attrs, id) ==
    IF attrs = <<>> \/ st.raised THEN st
    ELSE RemoveAttrs(IF Truthy(Head(attrs)) THEN _delete_value_for_name(st, Head(attrs), id) ELSE st,
                     Tail(attrs), id)

\* remove_person that leaves the index as it is
remove_person_skipped(T, p) == [trie |-> T, raised |-> FALSE]

remove_person(T, p) == RemoveAttrs([trie |-> T, raised |-> FALSE], AttrValues(p), p.id)

\* the keys with the given prefix in sorted order (SortedStringTrie)
RECURSIVE SortedKeys(_)
SortedKeys(ks) ==
    IF ks = {} THEN <<>>
    ELSE LET m == CHOOSE k \in ks : \A o \in ks \ {k} : StrLess(k, o)
         IN  <<m>> \o SortedKeys(ks \ {m})

\* get_persons_by_prefix without line 92: the prefix is used as given
get_persons_by_prefix_unfolded(T, prefix) ==
    LET ks == SortedKeys({k \in TrieKeys(T) : StartsWith(k, prefix)})
    IN  [i \in 1..Len(ks) |-> TrieGet(T, ks[i])]

\* FastTrieLookup.get_persons_by_prefix: the list of dicts
get_persons_by_prefix(T, prefix) ==
    LET p  == lower(prefix)
        ks == SortedKeys({k \in TrieKeys(T) : StartsWith(k, p)})
    IN  [i \in 1..Len(ks) |-> TrieGet(T, ks[i])]

\* dict.update over a list of dicts, in list order
RECURSIVE MergeDicts(_, _)
MergeDicts(merged, ds) ==
    IF ds = <<>> THEN merged
    ELSE LET d == Head(ds)
         IN  MergeDicts([k \in DOMAIN merged \cup DOMAIN d |-> IF k \in DOMAIN d THEN d[k] ELSE merged[k]],
                        Tail(ds))

\* FastLookupValue(id, full_name)
FastLookupValue(id, name) == [id |-> id, full_name |-> name]

\* _find_person_details_by_prefix without the merge of lines 485-487: one
\* FastLookupValue per entry of every dict of the list
_find_person_details_unmerged(T, prefix) ==
    LET ds == get_persons_by_prefix(T, prefix)
    IN  UNION {{FastLookupValue(k, ds[i][k]) : k \in DOMAIN ds[i]} : i \in 1..Len(ds)}

\* ContactBookDB._find_person_details_by_prefix: the list of FastLookupValue,
\* one per key of the merged dict (the order of the list is not modelled)
_find_person_details_by_prefix(T, prefix) ==
    LET merged == MergeDicts(EmptyDict, get_persons_by_prefix(T, prefix))
    IN  {FastLookupValue(k, merged[k]) : k \in DOMAIN merged}

\* an intersection that compares the pairs by id and full_name
SetIntersection_by_pair(so, other) == so \cap other

\* an intersection that keeps its left operand whatever the right one holds
SetIntersection_left(so, other) == so

\* set.intersection of two sets of FastLookupValue, whose __eq__ and __hash__
\* look at the id only: the elements kept are those of the set that is
\* iterated, which is `other` unless it is the larger one
SetIntersection(so, other) ==
    LET iter  == IF Cardinality(other) > Cardinality(so) THEN so ELSE other
        probe == IF Cardinality(other) > Cardinality(so) THEN other ELSE so
    IN  {e \in iter : \E x \in probe : x.id = e.id}

\* set.intersection(*result_sets) for a non-empty list
RECURSIVE IntersectAll(_, _)
IntersectAll(result, sets) ==
    IF sets = <<>> THEN result
    ELSE IntersectAll(SetIntersection(result, Head(sets)), Tail(sets))

\* ContactBookDB.find_person_details_by_name: exc is the exception that
\* leaves the call ("none" when it returns), value the list returned
find_person_details_by_name(T, name) ==
    LET words == split(name)
    IN  IF name = <<>> \/ Len(words) = 1
        THEN [exc |-> "none", value |-> _find_person_details_by_prefix(T, name)]
        ELSE IF words = <<>>
        THEN [exc |-> "TypeError", value |-> {}]
        ELSE LET result_sets == [i \in 1..Len(words) |-> _find_person_details_by_prefix(T, words[i])]
             IN  [exc |-> "none", value |-> IntersectAll(result_sets[1], Tail(result_sets))]

\* the ids of a query result
Ids(result) == {e.id : e \in result}

(***************************************************************************)
(* Inputs.                                                                 *)
(***************************************************************************)
Row(t, f, m, l, s) == [title |-> t, first_name |-> f, middle_name |-> m, last_name |-> l, suffix |-> s]

\* the attribute values the callers pass
PersonInputs ==
    { Row(None, <<"A", "b">>, None, <<"B">>, None),
      Row(None, <<"b">>, None, None, None),
      Row(None, <<"A", "b">>, None, None, None),
      Row(None, <<"a", "b">>, <<"A", "B">>, None, None),
      Row(<<"a">>, None, None, <<"a", Space, "b">>, None),
      Row(<<"B">>, <<>>, None, None, <<"a">>) }

\* the group ids the callers pass; 0 stands for group_id=None
GroupInputs == {0, 1}

\* the group names the callers pass
GroupNames == {<<>>, <<"a">>}

QueryChars == {"a", "b", "A", Space}

RECURSIVE TextsOfLen(_)
TextsOfLen(n) ==
    IF n = 0 THEN {<<>>}
    ELSE {Append(t, c) : t \in TextsOfLen(n - 1), c \in QueryChars}

\* the query texts examined
Texts == UNION {TextsOfLen(n) : n \in 0..MaxTextLen}

\* a Person object: its id and its attribute values
Person(id, row) ==
    [id |-> id, title |-> row.title, first_name |-> row.first_name, middle_name |-> row.middle_name,
     last_name |-> row.last_name, suffix |-> row.suffix]

(***************************************************************************)
(* State.                                                                  *)
(*   store    the committed rows of table persons, id -> attribute values  *)
(*   pending  the rows self.session has inserted and not yet committed     *)
(*   nextId   the id the store gives to the next inserted person           *)
(*   groups   the ids of the committed groups                              *)
(*   trie     fast_trie_lookup.trie                                        *)
(*   raised   the exception the last call raised, "none" when it returned  *)
(*   faults   the number of commits that have failed so far                *)
(*   pc       where the save_object call in progress stands, "idle" when   *)
(*            no call is in progress; "crashed", "starting" and "started"  *)
(*            when the process has died in a call and starts again         *)
(*   cur      the call in progress or cut short by the crash: obj,         *)
(*            old_person, the attribute that                               *)
(*            remove_person or add_person visits next, and the keys that   *)
(*            hold the value_dict of the running add_person                *)
(*   log      what the call in progress has done so far, in order          *)
(***************************************************************************)
VARIABLES store, pending, nextId, groups, trie, raised, faults, pc, cur, log

vars == <<store, pending, nextId, groups, trie, raised, faults, pc, cur, log>>

\* f with the entries of g added or replaced
Override(f, g) == [k \in DOMAIN f \cup DOMAIN g |-> IF k \in DOMAIN g THEN g[k] ELSE f[k]]

\* f without the key k
Without(f, k) == [j \in DOMAIN f \ {k} |-> f[j]]

EmptyRows == <<>>

\* session.commit(): the rows the session holds become committed rows
Committed(st, pend) == Override(st, pend)

\* what self.session.query(Person).get(id) sees: committed rows and its own
SessionRows == Override(store, pending)

\* no person
NoPerson == Person(0, Row(None, None, None, None, None))

\* no call in progress
NoCall == [obj |-> NoPerson, old |-> NoPerson, i |-> 1, own |-> {}]

Init ==
    /\ store = EmptyRows
    /\ pending = EmptyRows
    /\ nextId = 1
    /\ groups = {}
    /\ trie = EmptyTrie
    /\ raised = "none"
    /\ faults = 0
    /\ pc = "idle"
    /\ cur = NoCall
    /\ log = <<>>

(***************************************************************************)
(* ContactBookDB.create_person                                             *)
(***************************************************************************)
\* create_person with the check of line 153 made after session.add
create_person_checked_late(row) ==
    /\ ~(Truthy(row.first_name) \/ Truthy(row.middle_name) \/ Truthy(row.last_name))
    /\ nextId <= MaxId
    /\ pending' = Override(pending, [i \in {nextId} |-> row])
    /\ nextId' = nextId + 1
    /\ raised' = "ValueError"
    /\ pc = "idle" /\ UNCHANGED <<pc, cur, log>>
    /\ UNCHANGED faults
    /\ UNCHANGED <<store, groups, trie>>

\* line 153: none of first_name, middle_name, last_name is given
create_person_ValueError(row) ==
    /\ ~(Truthy(row.first_name) \/ Truthy(row.middle_name) \/ Truthy(row.last_name))
    /\ raised' = "ValueError"
    /\ pc = "idle" /\ UNCHANGED <<pc, cur, log>>
    /\ UNCHANGED faults
    /\ UNCHANGED <<store, pending, nextId, groups, trie>>

\* lines 156-166: the person is added to the session and flushed by the
\* group query, the group is missing, and the wrapper neither rolls back
\* nor commits
create_person_NoSuchObjectFound(row, group_id) ==
    /\ Truthy(row.first_name) \/ Truthy(row.middle_name) \/ Truthy(row.last_name)
    /\ group_id # 0 /\ group_id \notin groups
    /\ nextId <= MaxId
    /\ pending' = Override(pending, [i \in {nextId} |-> row])
    /\ nextId' = nextId + 1
    /\ raised' = "NoSuchObjectFound"
    /\ pc = "idle" /\ UNCHANGED <<pc, cur, log>>
    /\ UNCHANGED faults
    /\ UNCHANGED <<store, groups, trie>>

\* create_person with line 171 moved above the commit of line 170: the
\* person, whose id is still unassigned, is in the index when the commit fails
create_person_indexed_early(row, group_id) ==
    /\ Truthy(row.first_name) \/ Truthy(row.middle_name) \/ Truthy(row.last_name)
    /\ group_id = 0 \/ group_id \in groups
    /\ nextId <= MaxId
    /\ pending' = EmptyRows
    /\ nextId' = nextId + 1
    /\ trie' = add_person(trie, Person(0, row))
    /\ raised' = "SQLAlchemyError"
    /\ pc = "idle" /\ UNCHANGED <<pc, cur, log>>
    /\ faults < MaxFaults
    /\ faults' = faults + 1
    /\ UNCHANGED <<store, groups>>

\* line 170 raises: the wrapper rolls the session back
create_person_SQLAlchemyError(row, group_id) ==
    /\ Truthy(row.first_name) \/ Truthy(row.middle_name) \/ Truthy(row.last_name)
    /\ group_id = 0 \/ group_id \in groups
    /\ nextId <= MaxId
    /\ pending' = EmptyRows
    /\ nextId' = nextId + 1
    /\ raised' = "SQLAlchemyError"
    /\ pc = "idle" /\ UNCHANGED <<pc, cur, log>>
    /\ faults < MaxFaults
    /\ faults' = faults + 1
    /\ UNCHANGED <<store, groups, trie>>

\* lines 154-172
create_person_ok(row, group_id) ==
    /\ Truthy(row.first_name) \/ Truthy(row.middle_name) \/ Truthy(row.last_name)
    /\ group_id = 0 \/ group_id \in groups
    /\ nextId <= MaxId
    /\ store' = Committed(store, Override(pending, [i \in {nextId} |-> row]))
    /\ pending' = EmptyRows
    /\ nextId' = nextId + 1
    /\ trie' = add_person(trie, Person(nextId, row))
    /\ raised' = "none"
    /\ pc = "idle" /\ UNCHANGED <<pc, cur, log>>
    /\ UNCHANGED faults
    /\ UNCHANGED groups

create_person(row, group_id) ==
    \/ create_person_ValueError(row)
    \/ create_person_NoSuchObjectFound(row, group_id)
    \/ create_person_SQLAlchemyError(row, group_id)
    \/ create_person_ok(row, group_id)

(***************************************************************************)
(* ContactBookDB.create_group                                              *)
(***************************************************************************)
\* lines 186-187
create_group_ValueError(name) ==
    /\ ~Truthy(name)
    /\ raised' = "ValueError"
    /\ pc = "idle" /\ UNCHANGED <<pc, cur, log>>
    /\ UNCHANGED faults
    /\ UNCHANGED <<store, pending, nextId, groups, trie>>

\* the commit of the wrapper (line 102) raises: the transaction is lost
create_group_SQLAlchemyError(name) ==
    /\ Truthy(name)
    /\ Cardinality(groups) < MaxGroups
    /\ pending' = EmptyRows
    /\ raised' = "SQLAlchemyError"
    /\ pc = "idle" /\ UNCHANGED <<pc, cur, log>>
    /\ faults < MaxFaults
    /\ faults' = faults + 1
    /\ UNCHANGED <<store, nextId, groups, trie>>

\* lines 188-191 and the commit of the wrapper, which also commits the rows
\* the session holds
create_group_ok(name) ==
    /\ Truthy(name)
    /\ Cardinality(groups) < MaxGroups
    /\ groups' = groups \cup {Cardinality(groups) + 1}
    /\ store' = Committed(store, pending)
    /\ pending' = EmptyRows
    /\ raised' = "none"
    /\ pc = "idle" /\ UNCHANGED <<pc, cur, log>>
    /\ UNCHANGED faults
    /\ UNCHANGED <<nextId, trie>>

create_group(name) ==
    \/ create_group_ValueError(name)
    \/ create_group_SQLAlchemyError(name)
    \/ create_group_ok(name)

(***************************************************************************)
(* ContactBookDB.delete_person                                             *)
(***************************************************************************)
\* lines 337-339
delete_person_NoSuchObjectFound(person_id) ==
    /\ person_id \notin DOMAIN SessionRows
    /\ raised' = "NoSuchObjectFound"
    /\ pc = "idle" /\ UNCHANGED <<pc, cur, log>>
    /\ UNCHANGED faults
    /\ UNCHANGED <<store, pending, nextId, groups, trie>>

\* line 341 raises KeyError: what remove_person did before stays, and the
\* wrapper neither rolls back nor commits
delete_person_KeyError(person_id) ==
    /\ person_id \in DOMAIN SessionRows
    /\ LET r == remove_person(trie, Person(person_id, SessionRows[person_id]))
       IN  /\ r.raised
           /\ trie' = r.trie
    /\ raised' = "KeyError"
    /\ pc = "idle" /\ UNCHANGED <<pc, cur, log>>
    /\ UNCHANGED faults
    /\ UNCHANGED <<store, pending, nextId, groups>>

\* the commit of the wrapper (line 102) raises: the index has been updated,
\* the transaction is lost
delete_person_SQLAlchemyError(person_id) ==
    /\ person_id \in DOMAIN SessionRows
    /\ LET r == remove_person(trie, Person(person_id, SessionRows[person_id]))
       IN  /\ ~r.raised
           /\ trie' = r.trie
    /\ pending' = EmptyRows
    /\ raised' = "SQLAlchemyError"
    /\ pc = "idle" /\ UNCHANGED <<pc, cur, log>>
    /\ faults < MaxFaults
    /\ faults' = faults + 1
    /\ UNCHANGED <<store, nextId, groups>>

\* lines 337-344 and the commit of the wrapper
delete_person_ok(person_id) ==
    /\ person_id \in DOMAIN SessionRows
    /\ LET r == remove_person(trie, Person(person_id, SessionRows[person_id]))
       IN  /\ ~r.raised
           /\ trie' = r.trie
    /\ store' = Without(Committed(store, pending), person_id)
    /\ pending' = EmptyRows
    /\ raised' = "none"
    /\ pc = "idle" /\ UNCHANGED <<pc, cur, log>>
    /\ UNCHANGED faults
    /\ UNCHANGED <<nextId, groups>>

delete_person(person_id) ==
    \/ delete_person_NoSuchObjectFound(person_id)
    \/ delete_person_KeyError(person_id)
    \/ delete_person_SQLAlchemyError(person_id)
    \/ delete_person_ok(person_id)

(***************************************************************************)
(* ContactBookDB.save_object for a Person obj; obj carries the new         *)
(* attribute values, the fresh session of line 419 reads the committed     *)
(* ones.                                                                   *)
(***************************************************************************)
\* lines 420-422
save_object_NoSuchObjectFound(obj) ==
    /\ obj.id \notin DOMAIN store
    /\ raised' = "NoSuchObjectFound"
    /\ pc = "idle" /\ UNCHANGED <<pc, cur, log>>
    /\ UNCHANGED faults
    /\ UNCHANGED <<store, pending, nextId, groups, trie>>

\* line 423 raises KeyError
save_object_KeyError(obj) ==
    /\ obj.id \in DOMAIN store
    /\ LET r == remove_person(trie, Person(obj.id, store[obj.id]))
       IN  /\ r.raised
           /\ trie' = r.trie
    /\ raised' = "KeyError"
    /\ pc = "idle" /\ UNCHANGED <<pc, cur, log>>
    /\ UNCHANGED faults
    /\ UNCHANGED <<store, pending, nextId, groups>>

\* the commit of the wrapper (line 102) raises after lines 423-427 ran
save_object_SQLAlchemyError(obj) ==
    /\ obj.id \in DOMAIN store
    /\ LET r == remove_person(trie, Person(obj.id, store[obj.id]))
       IN  /\ ~r.raised
           /\ trie' = add_person(r.trie, obj)
    /\ pending' = EmptyRows
    /\ raised' = "SQLAlchemyError"
    /\ pc = "idle" /\ UNCHANGED <<pc, cur, log>>
    /\ faults < MaxFaults
    /\ faults' = faults + 1
    /\ UNCHANGED <<store, nextId, groups>>

\* lines 416-428 and the commit of the wrapper
save_object_ok(obj) ==
    /\ obj.id \in DOMAIN store
    /\ LET r == remove_person(trie, Person(obj.id, store[obj.id]))
       IN  /\ ~r.raised
           /\ trie' = add_person(r.trie, obj)
    /\ store' = Override(Committed(store, pending),
                         [i \in {obj.id} |-> [a \in DOMAIN store[obj.id] |-> obj[a]]])
    /\ pending' = EmptyRows
    /\ raised' = "none"
    /\ pc = "idle" /\ UNCHANGED <<pc, cur, log>>
    /\ UNCHANGED faults
    /\ UNCHANGED <<nextId, groups>>

save_object(obj) ==
    \/ save_object_NoSuchObjectFound(obj)
    \/ save_object_KeyError(obj)
    \/ save_object_SQLAlchemyError(obj)
    \/ save_object_ok(obj)

(***************************************************************************)
(* db.init_lookup_trie_with_existing_persons and db_init                   *)
(***************************************************************************)
\* get_all_persons(): the committed persons, in id order
RECURSIVE PersonsOf(_, _)
PersonsOf(st, ids) ==
    IF ids = {} THEN <<>>
    ELSE LET i == CHOOSE k \in ids : \A o \in ids : k <= o
         IN  <<Person(i, st[i])>> \o PersonsOf(st, ids \ {i})

get_all_persons(st) == PersonsOf(st, DOMAIN st)

\* lines 67-69: add_person for each person of the list, onto the index T
RECURSIVE init_lookup_trie_with_existing_persons(_, _)
init_lookup_trie_with_existing_persons(T, persons) ==
    IF persons = <<>> THEN T
    ELSE init_lookup_trie_with_existing_persons(add_person(T, Head(persons)), Tail(persons))

\* db_init called again in the running process: the index is not cleared
db_init ==
    /\ trie' = init_lookup_trie_with_existing_persons(trie, get_all_persons(store))
    /\ raised' = "none"
    /\ pc = "idle" /\ UNCHANGED <<pc, cur, log>>
    /\ UNCHANGED faults
    /\ UNCHANGED <<store, pending, nextId, groups>>

\* the process starts again: a new FastTrieLookup (line 22), no session,
\* then db_init
restart ==
    /\ trie' = init_lookup_trie_with_existing_persons(EmptyTrie, get_all_persons(store))
    /\ pending' = EmptyRows
    /\ raised' = "none"
    /\ pc = "idle" /\ UNCHANGED <<pc, cur, log>>
    /\ UNCHANGED faults
    /\ UNCHANGED <<store, nextId, groups>>

(***************************************************************************)
(* ContactBookDB.save_object for a Person, statement by statement.  The    *)
(* index is the process-wide fast_trie_lookup, which a reader may query    *)
(* between any two of these steps.                                         *)
(***************************************************************************)
\* the number of name attributes remove_person and add_person visit
NumAttrs == Len(AttrValues(NoPerson))

\* the call is made: the wrapper of lines 89-94 runs func
save_object_enter(obj) ==
    /\ pc = "idle"
    /\ pc' = "read"
    /\ cur' = [obj |-> obj, old |-> NoPerson, i |-> 1, own |-> {}]
    /\ log' = <<>>
    /\ UNCHANGED <<store, pending, nextId, groups, trie, raised, faults>>

\* lines 419-422 with no such person: the call ends
save_object_read_old_NoSuchObjectFound ==
    /\ pc = "read"
    /\ cur.obj.id \notin DOMAIN store
    /\ raised' = "NoSuchObjectFound"
    /\ pc' = "idle"
    /\ cur' = NoCall
    /\ log' = <<>>
    /\ UNCHANGED <<store, pending, nextId, groups, trie, faults>>

\* lines 419-420: old_person is read through a new session
save_object_read_old ==
    /\ pc = "read"
    /\ cur.obj.id \in DOMAIN store
    /\ pc' = "remove"
    /\ cur' = [cur EXCEPT !.old = Person(cur.obj.id, store[cur.obj.id])]
    /\ log' = Append(log, <<"read">>)
    /\ UNCHANGED <<store, pending, nextId, groups, trie, raised, faults>>

\* one `if` of remove_person(old_person) (line 423; fast_lookup.py 80-89)
\* whose _delete_value_for_name raises KeyError: the call ends
remove_person_next_KeyError ==
    /\ pc = "remove"
    /\ LET name == AttrValues(cur.old)[cur.i]
       IN  /\ Truthy(name)
           /\ _delete_value_for_name([trie |-> trie, raised |-> FALSE], name, cur.old.id).raised
    /\ raised' = "KeyError"
    /\ pc' = "idle"
    /\ cur' = NoCall
    /\ log' = <<>>
    /\ UNCHANGED <<store, pending, nextId, groups, trie, faults>>

\* remove_person_next that passes over an attribute obj holds unchanged
remove_person_next_changed_only ==
    /\ pc = "remove"
    /\ LET name == AttrValues(cur.old)[cur.i]
           r    == _delete_value_for_name([trie |-> trie, raised |-> FALSE], name, cur.old.id)
       IN  IF Truthy(name) /\ name # AttrValues(cur.obj)[cur.i]
           THEN /\ ~r.raised
                /\ trie' = r.trie
                /\ log' = Append(log, <<"remove", lower(name)>>)
           ELSE UNCHANGED <<trie, log>>
    /\ IF cur.i < NumAttrs
       THEN /\ pc' = "remove"
            /\ cur' = [cur EXCEPT !.i = cur.i + 1]
       ELSE /\ pc' = "merge"
            /\ cur' = [cur EXCEPT !.i = 1]
    /\ UNCHANGED <<store, pending, nextId, groups, raised, faults>>

\* one `if` of remove_person(old_person) (line 423; fast_lookup.py 80-89)
remove_person_next ==
    /\ pc = "remove"
    /\ LET name == AttrValues(cur.old)[cur.i]
           r    == _delete_value_for_name([trie |-> trie, raised |-> FALSE], name, cur.old.id)
       IN  IF Truthy(name)
           THEN /\ ~r.raised
                /\ trie' = r.trie
                /\ log' = Append(log, <<"remove", lower(name)>>)
           ELSE UNCHANGED <<trie, log>>
    /\ IF cur.i < NumAttrs
       THEN /\ pc' = "remove"
            /\ cur' = [cur EXCEPT !.i = cur.i + 1]
       ELSE /\ pc' = "merge"
            /\ cur' = [cur EXCEPT !.i = 1]
    /\ UNCHANGED <<store, pending, nextId, groups, raised, faults>>

\* line 425: self.session.merge(obj) applies the new values in the session
session_merge ==
    /\ pc = "merge"
    /\ pc' = "add"
    /\ log' = Append(log, <<"merge">>)
    /\ UNCHANGED <<store, pending, nextId, groups, trie, raised, faults, cur>>

\* add_person_next that passes over an attribute old_person holds unchanged
add_person_next_changed_only ==
    /\ pc = "add"
    /\ LET name == AttrValues(cur.obj)[cur.i]
           st   == _add_name([trie |-> trie, own |-> cur.own], name, cur.obj.id, full_name(cur.obj))
           acts == Truthy(name) /\ name # AttrValues(cur.old)[cur.i]
       IN  /\ IF acts
              THEN /\ trie' = st.trie
                   /\ log' = Append(log, <<"insert", lower(name)>>)
              ELSE UNCHANGED <<trie, log>>
           /\ IF cur.i < NumAttrs
              THEN /\ pc' = "add"
                   /\ cur' = [cur EXCEPT !.i = cur.i + 1, !.own = IF acts THEN st.own ELSE cur.own]
              ELSE /\ pc' = "commit"
                   /\ cur' = [cur EXCEPT !.i = 1, !.own = {}]
    /\ UNCHANGED <<store, pending, nextId, groups, raised, faults>>

\* one `if` of add_person(obj) (line 427; fast_lookup.py 65-74)
add_person_next ==
    /\ pc = "add"
    /\ LET name == AttrValues(cur.obj)[cur.i]
           st   == _add_name([trie |-> trie, own |-> cur.own], name, cur.obj.id, full_name(cur.obj))
       IN  /\ IF Truthy(name)
              THEN /\ trie' = st.trie
                   /\ log' = Append(log, <<"insert", lower(name)>>)
              ELSE UNCHANGED <<trie, log>>
           /\ IF cur.i < NumAttrs
              THEN /\ pc' = "add"
                   /\ cur' = [cur EXCEPT !.i = cur.i + 1, !.own = IF Truthy(name) THEN st.own ELSE cur.own]
              ELSE /\ pc' = "commit"
                   /\ cur' = [cur EXCEPT !.i = 1, !.own = {}]
    /\ UNCHANGED <<store, pending, nextId, groups, raised, faults>>

\* the commit of the wrapper (line 102) and the return
save_object_commit ==
    /\ pc = "commit"
    /\ store' = Override(Committed(store, pending),
                         [i \in {cur.obj.id} |-> [a \in DOMAIN store[cur.obj.id] |-> cur.obj[a]]])
    /\ pending' = EmptyRows
    /\ raised' = "none"
    /\ pc' = "idle"
    /\ cur' = NoCall
    /\ log' = <<>>
    /\ UNCHANGED <<nextId, groups, trie, faults>>

(***************************************************************************)
(* A crash of the process inside create_person, and the next start of the  *)
(* process.                                                                *)
(***************************************************************************)
\* lines 154-170 have run and the process dies before line 171: the person
\* is committed and add_person is never called
create_person_crash(row) ==
    /\ pc = "idle"
    /\ Truthy(row.first_name) \/ Truthy(row.middle_name) \/ Truthy(row.last_name)
    /\ nextId <= MaxId
    /\ store' = Committed(store, Override(pending, [i \in {nextId} |-> row]))
    /\ pending' = EmptyRows
    /\ nextId' = nextId + 1
    /\ pc' = "crashed"
    /\ cur' = [NoCall EXCEPT !.obj = Person(nextId, row)]
    /\ log' = <<>>
    /\ UNCHANGED <<groups, trie, raised, faults>>

\* db_init_on_start without the call of line 57
db_init_on_start_no_warm_start ==
    /\ pc = "starting"
    /\ pc' = "started"
    /\ UNCHANGED <<store, pending, nextId, groups, trie, raised, faults, cur, log>>

\* the process starts again: the module is loaded and line 22 makes a new,
\* empty FastTrieLookup
process_start ==
    /\ pc = "crashed"
    /\ trie' = EmptyTrie
    /\ pc' = "starting"
    /\ UNCHANGED <<store, pending, nextId, groups, raised, faults, cur, log>>

\* db_init of the new process (lines 34-57), which ends with
\* init_lookup_trie_with_existing_persons
db_init_on_start ==
    /\ pc = "starting"
    /\ trie' = init_lookup_trie_with_existing_persons(trie, get_all_persons(store))
    /\ pc' = "started"
    /\ UNCHANGED <<store, pending, nextId, groups, raised, faults, cur, log>>

\* the new process makes its ContactBookDB object (lines 117-118) and takes
\* calls
ContactBookDB_init ==
    /\ pc = "started"
    /\ pc' = "idle"
    /\ cur' = NoCall
    /\ raised' = "none"
    /\ UNCHANGED <<store, pending, nextId, groups, trie, faults, log>>

(***************************************************************************)
(* Specifications.                                                         *)
(***************************************************************************)
Objects == {Person(i, row) : i \in 1..MaxId, row \in PersonInputs}

Next ==
    \/ \E row \in PersonInputs, g \in GroupInputs : create_person(row, g)
    \/ \E name \in GroupNames : create_group(name)
    \/ \E i \in 1..MaxId : delete_person(i)
    \/ \E obj \in Objects : save_object(obj)
    \/ db_init
    \/ restart

Spec == Init /\ [][Next]_vars

\* the runs in which every call returns
NextOk ==
    \/ \E row \in PersonInputs, g \in GroupInputs : create_person_ok(row, g)
    \/ \E name \in GroupNames : create_group_ok(name)
    \/ \E i \in 1..MaxId : delete_person_ok(i)
    \/ \E obj \in Objects : save_object_ok(obj)

SpecOk == Init /\ [][NextOk]_vars

\* the runs in which save_object goes statement by statement, the other calls
\* return, and no commit fails
NextSteps ==
    \/ \E row \in PersonInputs : create_person_ok(row, 0)
    \/ \E i \in 1..MaxId : delete_person_ok(i)
    \/ \E obj \in Objects : save_object_enter(obj)
    \/ save_object_read_old_NoSuchObjectFound
    \/ save_object_read_old
    \/ remove_person_next_KeyError
    \/ remove_person_next
    \/ session_merge
    \/ add_person_next
    \/ save_object_commit

SpecSteps == Init /\ [][NextSteps]_vars

\* the runs in which every call returns or create_person dies after its
\* commit, and the process starts again
NextCrash ==
    \/ \E row \in PersonInputs : create_person_ok(row, 0)
    \/ \E i \in 1..MaxId : delete_person_ok(i)
    \/ \E obj \in Objects : save_object_ok(obj)
    \/ \E row \in PersonInputs : create_person_crash(row)
    \/ process_start
    \/ db_init_on_start
    \/ ContactBookDB_init

SpecCrash == Init /\ [][NextCrash]_vars

(***************************************************************************)
(* What the claims speak about.                                            *)
(***************************************************************************)
\* the non-empty name attribute values of a row
NameValues(row) == {v \in {row.title, row.first_name, row.middle_name, row.last_name, row.suffix} : Truthy(v)}

\* p is a case-insensitive prefix of v
IsPrefixOf(p, v) ==
    /\ Len(p) <= Len(v)
    /\ \A i \in 1..Len(p) : LowerChar(p[i]) = LowerChar(v[i])

\* some non-empty name attribute of the row starts with p, case-insensitively
MatchesRow(row, p) == \E v \in NameValues(row) : IsPrefixOf(p, v)

\* the pair a query returns for the stored person id
StoredPair(id) == FastLookupValue(id, full_name(Person(id, store[id])))

\* the ids some entry of the index maps
IndexedIds(T) == UNION {DOMAIN c.vals : c \in T}

\* the answers of the index to every query text examined
Answers(T) == [q \in Texts |-> find_person_details_by_name(T, q)]

OneWord(q) == Len(split(q)) = 1

\* the sequences that list every element of S once
RECURSIVE Orders(_)
Orders(S) ==
    IF S = {} THEN {<<>>}
    ELSE UNION {{<<x>> \o o : o \in Orders(S \ {x})} : x \in S}

(***************************************************************************)
(* C1  Soundness: after successful calls only, a single-word query p       *)
(* returns no stored person none of whose non-empty name attributes starts *)
(* with p, case-insensitively.                                             *)
(***************************************************************************)
C1_Soundness ==
    \A q \in Texts :
        OneWord(q) =>
            \A id \in Ids(find_person_details_by_name(trie, q).value) \cap DOMAIN store :
                MatchesRow(store[id], q)

(***************************************************************************)
(* C2  Completeness as claimed: after successful calls only, for every     *)
(* stored person P, every non-empty name attribute value V of P and every  *)
(* text p that is a case-insensitive prefix of V, the query p returns the  *)
(* pair (P.id, P.full_name).                                               *)
(***************************************************************************)
C2_CompletenessAnyPrefix ==
    \A id \in DOMAIN store : \A v \in NameValues(store[id]) : \A p \in Texts :
        IsPrefixOf(p, v) =>
            LET r == find_person_details_by_name(trie, p)
            IN  r.exc = "none" /\ StoredPair(id) \in r.value

(***************************************************************************)
(* C2 amended  Completeness for the prefixes that are looked up as one     *)
(* prefix: the same, for every prefix p of V that is empty or splits into  *)
(* exactly one word.                                                       *)
(***************************************************************************)
C2_CompletenessOneWord ==
    \A id \in DOMAIN store : \A v \in NameValues(store[id]) : \A p \in Texts :
        (IsPrefixOf(p, v) /\ (p = <<>> \/ OneWord(p))) =>
            LET r == find_person_details_by_name(trie, p)
            IN  r.exc = "none" /\ StoredPair(id) \in r.value

\* two persons are stored, one was updated or created with a value that
\* holds a space, and a one-word prefix that ends in the space finds it
C2_Witness ==
    /\ Cardinality(DOMAIN store) = 2
    /\ \E id \in DOMAIN store :
          /\ <<"a", Space, "b">> \in NameValues(store[id])
          /\ StoredPair(id) \in find_person_details_by_name(trie, <<"A", Space>>).value

(***************************************************************************)
(* C3  Conjunction correctness: for a query of two or more words, a stored *)
(* person is in the result if and only if every word is a case-insensitive *)
(* prefix of at least one of its non-empty name attributes.                *)
(***************************************************************************)
C3_Conjunction ==
    \A q \in Texts :
        Len(split(q)) >= 2 =>
            \A id \in DOMAIN store :
                (id \in Ids(find_person_details_by_name(trie, q).value))
                    <=> (\A i \in 1..Len(split(q)) : MatchesRow(store[id], split(q)[i]))

(***************************************************************************)
(* C4  Update correctness: a successful save_object that changes one name  *)
(* attribute of P leaves P out of the result of every prefix q that        *)
(* matches the old value and none of P's attributes after the update, and  *)
(* P is returned for every (one-word) prefix of the new value.             *)
(***************************************************************************)
ChangedAttrs(old, new) == {a \in DOMAIN old : old[a] # new[a]}

C4_UpdateCorrect ==
    [][ \A id \in DOMAIN store :
          (/\ raised' = "none"
           /\ id \in DOMAIN store'
           /\ Cardinality(ChangedAttrs(store[id], store'[id])) = 1)
          => LET a == CHOOSE x \in ChangedAttrs(store[id], store'[id]) : TRUE
                 old == store[id][a]
                 new == store'[id][a]
             IN  \A q \in Texts :
                    /\ (OneWord(q) /\ Truthy(old) /\ IsPrefixOf(q, old) /\ ~MatchesRow(store'[id], q))
                          => id \notin Ids(find_person_details_by_name(trie', q).value)
                    /\ (OneWord(q) /\ Truthy(new) /\ IsPrefixOf(q, new))
                          => id \in Ids(find_person_details_by_name(trie', q).value)
      ]_vars

(***************************************************************************)
(* C5  Round trip: for every reachable index and every person P that is   *)
(* not indexed, add_person(P) then remove_person(P) does not raise and     *)
(* leaves every query answered as before add_person(P).                    *)
(***************************************************************************)
C5_RoundTrip ==
    \A row \in PersonInputs : \A id \in (1..(MaxId + 1)) \ (IndexedIds(trie) \cup DOMAIN store) :
        LET P == Person(id, row)
            r == remove_person(add_person(trie, P), P)
        IN  ~r.raised /\ Answers(r.trie) = Answers(trie)

(***************************************************************************)
(* C6  Warm start: the index that init_lookup_trie_with_existing_persons   *)
(* builds from empty answers every query as the index built by add_person  *)
(* calls in any other order of the same people.                            *)
(***************************************************************************)
RECURSIVE PersonsInOrder(_, _)
PersonsInOrder(st, order) ==
    IF order = <<>> THEN <<>>
    ELSE <<Person(Head(order), st[Head(order)])>> \o PersonsInOrder(st, Tail(order))

C6_WarmStartAnyOrder ==
    \A order \in Orders(DOMAIN store) :
        Answers(init_lookup_trie_with_existing_persons(EmptyTrie, PersonsInOrder(store, order)))
            = Answers(init_lookup_trie_with_existing_persons(EmptyTrie, get_all_persons(store)))

(***************************************************************************)
(* C7  No dangling entries: an id is mapped by an entry of the index only  *)
(* after its person was committed to the store, so an indexed id that is   *)
(* not stored is the id of a deleted person; there is none.                *)
(***************************************************************************)
C7_NoDangling == IndexedIds(trie) \subseteq DOMAIN store

(***************************************************************************)
(* C8  A call that raises leaves the index answering every query as        *)
(* before the call.                                                        *)
(***************************************************************************)
C8_FailedCallKeepsIndex == [][raised' # "none" => Answers(trie') = Answers(trie)]_vars

(***************************************************************************)
(* C9  _delete_value_for_name(token, id) raises and changes nothing        *)
(* whenever the entry of the folded token does not contain id: the token   *)
(* is absent, or it is present and maps other ids only.                    *)
(***************************************************************************)
Tokens == UNION {NameValues(row) : row \in PersonInputs}

C9_DeleteMissingRaises ==
    \A t \in Tokens : \A id \in 1..MaxId :
        (lower(t) \notin TrieKeys(trie) \/ id \notin DOMAIN TrieGet(trie, lower(t)))
            => LET r == _delete_value_for_name([trie |-> trie, raised |-> FALSE], t, id)
               IN  r.raised /\ r.trie = trie

(***************************************************************************)
(* C10  Query parsing: a text that splits into exactly one word w is       *)
(* answered by the prefix lookup of w, and a text that splits into no word *)
(* by the prefix lookup of the empty text.                                 *)
(***************************************************************************)
C10_QueryParsing ==
    \A text \in Texts :
        LET words == split(text)
            r     == find_person_details_by_name(trie, text)
        IN  /\ Len(words) = 1 =>
                 r = [exc |-> "none", value |-> _find_person_details_by_prefix(trie, words[1])]
            /\ Len(words) = 0 =>
                 r = [exc |-> "none", value |-> _find_person_details_by_prefix(trie, <<>>)]

(***************************************************************************)
(* C11  Queries never fail: in every reachable index state, every query    *)
(* text over letters and whitespace is answered with a collection of       *)
(* pairs, and no exception leaves find_person_details_by_name.             *)
(***************************************************************************)
C11_QueriesNeverFail ==
    \A q \in Texts : find_person_details_by_name(trie, q).exc = "none"

(***************************************************************************)
(* C12  Empty prefix returns everyone: after successful calls only, the    *)
(* query '' returns exactly the pairs (id, full_name) of the stored        *)
(* persons that have a non-empty name attribute, one pair per person.      *)
(***************************************************************************)
C12_EmptyPrefixEveryone ==
    LET r == find_person_details_by_name(trie, <<>>)
    IN  /\ r.exc = "none"
        /\ r.value = {StoredPair(id) : id \in {i \in DOMAIN store : NameValues(store[i]) # {}}}

\* two persons are stored, one of them last saved with an empty first name,
\* and the query '' returns two pairs
C12_Witness ==
    /\ Cardinality(DOMAIN store) = 2
    /\ \E id \in DOMAIN store : store[id].first_name = <<>>
    /\ Cardinality(find_person_details_by_name(trie, <<>>).value) = 2

(***************************************************************************)
(* C13  Dedup: in every reachable index state and for every query text,    *)
(* of one word or of several, the result holds at most one pair per person *)
(* id, also when several attributes of the person match the prefix.        *)
(***************************************************************************)
C13_Dedup ==
    \A q \in Texts :
        LET value == find_person_details_by_name(trie, q).value
        IN  \A e1 \in value : \A e2 \in value : e1.id = e2.id => e1 = e2

\* a stored person has two name attributes that start with 'a' under two
\* different tokens, and the queries 'a' and 'a a' return it
C13_Witness ==
    \E id \in DOMAIN store :
        /\ Cardinality({lower(v) : v \in {w \in NameValues(store[id]) : IsPrefixOf(<<"a">>, w)}}) = 2
        /\ id \in Ids(find_person_details_by_name(trie, <<"a">>).value)
        /\ id \in Ids(find_person_details_by_name(trie, <<"a", Space, "a">>).value)

(***************************************************************************)
(* C14  Word-order independence: in every reachable index state, a query   *)
(* of two or more words and the query of the same words in any other       *)
(* order return the same set of person ids.                                *)
(***************************************************************************)
\* the words ws in the order given by the sequence of positions order
Permuted(ws, order) == [i \in 1..Len(order) |-> ws[order[i]]]

C14_WordOrder ==
    \A q \in Texts :
        LET ws == split(q)
        IN  Len(ws) >= 2 =>
                \A order \in Orders(1..Len(ws)) :
                    Ids(find_person_details_by_name(trie, JoinSpace(Permuted(ws, order))).value)
                        = Ids(find_person_details_by_name(trie, q).value)

\* the words 'a' and 'b' alone have different results, and the query of
\* both finds somebody
C14_Witness ==
    /\ Ids(find_person_details_by_name(trie, <<"a">>).value)
          # Ids(find_person_details_by_name(trie, <<"b">>).value)
    /\ Ids(find_person_details_by_name(trie, <<"b", Space, "a">>).value) # {}

(***************************************************************************)
(* C15  The documented example: with the persons 1 (first 'Abcd', last     *)
(* 'Hijk'), 2 (first 'Cdef', last 'Abc') and 3 (first 'Abef', last 'Hijk') *)
(* added in this order to an empty index, the lookups return the ids       *)
(* 'ab' -> {1,2,3}, 'abc' -> {1,2}, 'abcd' -> {1}, 'ab hi' -> {1,3},       *)
(* 'abe hi' -> {3}, 'ab hi c' -> {}.                                       *)
(***************************************************************************)
ExamplePersons ==
    << Person(1, Row(None, <<"A", "b", "c", "d">>, None, <<"H", "i", "j", "k">>, None)),
       Person(2, Row(None, <<"C", "d", "e", "f">>, None, <<"A", "b", "c">>, None)),
       Person(3, Row(None, <<"A", "b", "e", "f">>, None, <<"H", "i", "j", "k">>, None)) >>

\* the index after the three add_person calls on the index T
ExampleTrie(T) == init_lookup_trie_with_existing_persons(T, ExamplePersons)

ExampleIds(T, text) == Ids(find_person_details_by_name(ExampleTrie(T), text).value)

C15_DocumentedExample ==
    trie = EmptyTrie =>
        /\ ExampleIds(trie, <<"a", "b">>) = {1, 2, 3}
        /\ ExampleIds(trie, <<"a", "b", "c">>) = {1, 2}
        /\ ExampleIds(trie, <<"a", "b", "c", "d">>) = {1}
        /\ ExampleIds(trie, <<"a", "b", Space, "h", "i">>) = {1, 3}
        /\ ExampleIds(trie, <<"a", "b", "e", Space, "h", "i">>) = {3}
        /\ ExampleIds(trie, <<"a", "b", Space, "h", "i", Space, "c">>) = {}

(***************************************************************************)
(* C16  Case-insensitivity: the keys of the index are lower-cased texts;   *)
(* two query texts that differ only in letter case return the same pairs,  *)
(* those of their common lower-case text; and a person is indexed under    *)
(* the same tokens as the person whose attributes are the same texts in    *)
(* lower case.                                                             *)
(***************************************************************************)
\* the row with every attribute value in lower case
LowerRow(row) == [a \in DOMAIN row |-> IF row[a] = None THEN None ELSE lower(row[a])]

\* the keys under which the index T maps id
KeysOf(T, id) == {k \in TrieKeys(T) : id \in DOMAIN TrieGet(T, k)}

C16_CaseInsensitive ==
    /\ \A k \in TrieKeys(trie) : k = lower(k)
    /\ \A q \in Texts :
          q # lower(q) =>
              find_person_details_by_name(trie, q) = find_person_details_by_name(trie, lower(q))
    /\ \A row \in PersonInputs : \A id \in (1..(MaxId + 1)) \ IndexedIds(trie) :
          /\ TrieKeys(add_person(trie, Person(id, row)))
                = TrieKeys(add_person(trie, Person(id, LowerRow(row))))
          /\ KeysOf(add_person(trie, Person(id, row)), id)
                = KeysOf(add_person(trie, Person(id, LowerRow(row))), id)

\* a person stored with the first name 'Ab' is found under the key 'ab' by
\* the queries 'A' and 'a'
C16_Witness ==
    \E id \in DOMAIN store :
        /\ store[id].first_name = <<"A", "b">>
        /\ <<"a", "b">> \in KeysOf(trie, id)
        /\ id \in Ids(find_person_details_by_name(trie, <<"A">>).value)
        /\ id \in Ids(find_person_details_by_name(trie, <<"a">>).value)

(***************************************************************************)
(* C17  create_person with none of first_name, middle_name and last_name   *)
(* non-empty, whatever title and suffix are, raises ValueError and changes *)
(* neither the store, the session nor the index.                           *)
(***************************************************************************)
HasName(row) == Truthy(row.first_name) \/ Truthy(row.middle_name) \/ Truthy(row.last_name)

C17_CreateWithoutName ==
    [][ \A row \in PersonInputs : \A g \in GroupInputs :
          (~HasName(row) /\ create_person(row, g))
              => /\ raised' = "ValueError"
                 /\ store' = store /\ pending' = pending /\ nextId' = nextId
                 /\ trie' = trie
      ]_vars

\* a call has raised ValueError with two persons stored and indexed, which
\* are still stored and indexed
C17_Witness ==
    /\ raised = "ValueError"
    /\ Cardinality(DOMAIN store) = 2
    /\ Ids(find_person_details_by_name(trie, <<>>).value) = DOMAIN store

(***************************************************************************)
(* C18  create_person with a group_id that does not exist raises           *)
(* NoSuchObjectFound and creates no person: the person is neither stored   *)
(* nor indexed right after the call, nor after any later call on the same  *)
(* ContactBookDB object.                                                   *)
(***************************************************************************)
\* the ids of the persons whose create_person has raised NoSuchObjectFound,
\* as far as the step at hand can tell
FailedCreates ==
    DOMAIN pending \cup (IF raised' = "NoSuchObjectFound" /\ nextId' # nextId THEN {nextId} ELSE {})

C18_FailedCreateNeverStored ==
    [][ \A id \in FailedCreates : id \notin DOMAIN store' /\ id \notin IndexedIds(trie') ]_vars

(***************************************************************************)
(* C19  delete_person(id) and save_object(P) for a person id that is not   *)
(* in the store raise NoSuchObjectFound before any call on the index: the  *)
(* index is as before.                                                     *)
(***************************************************************************)
C19_NotFoundAborts ==
    [][ /\ \A i \in 1..MaxId :
              (i \notin DOMAIN store /\ delete_person(i))
                  => (raised' = "NoSuchObjectFound" /\ trie' = trie)
        /\ \A obj \in Objects :
              (obj.id \notin DOMAIN store /\ save_object(obj))
                  => (raised' = "NoSuchObjectFound" /\ trie' = trie)
      ]_vars

(***************************************************************************)
(* C20  The index never drifts from the store: after every completed call, *)
(* returning or raising, the ids that the query '' returns are the ids of  *)
(* the persons in the store.                                               *)
(***************************************************************************)
C20_NoDrift == Ids(find_person_details_by_name(trie, <<>>).value) = DOMAIN store

(***************************************************************************)
(* C21  Cached display names are never stale: after successful calls only, *)
(* every pair (id, full_name) that any query returns carries the full name *)
(* derived from the attribute values stored for id.                        *)
(***************************************************************************)
C21_NamesNotStale ==
    \A q \in Texts :
        \A e \in find_person_details_by_name(trie, q).value :
            e.id \in DOMAIN store /\ e = StoredPair(e.id)

\* a person was saved with attribute values that give another full name,
\* another person shares a token with it, and a query returns both
C21_Witness ==
    /\ raised = "none"
    /\ \E id \in DOMAIN store : \E other \in DOMAIN store :
          /\ id # other
          /\ store[id].suffix = <<"a">>
          /\ {id, other} \subseteq Ids(find_person_details_by_name(trie, <<"b">>).value)

(***************************************************************************)
(* C22  Token entries are independent: _add_name(t, {id: name}) and        *)
(* _delete_value_for_name(t, id) change the ids of the entry of the folded *)
(* token t only; under every other token u the ids are as before, in every *)
(* reachable index state.                                                  *)
(***************************************************************************)
\* the ids the index T maps under the key u
IdsUnder(T, u) == IF u \in TrieKeys(T) THEN DOMAIN TrieGet(T, u) ELSE {}

C22_EntriesIndependent ==
    \A t \in Tokens : \A id \in 1..(MaxId + 1) :
        LET added   == _add_name([trie |-> trie, own |-> {}], t, id, t).trie
            deleted == _delete_value_for_name([trie |-> trie, raised |-> FALSE], t, id).trie
        IN  \A u \in (TrieKeys(trie) \cup TrieKeys(added)) \ {lower(t)} :
                /\ IdsUnder(added, u) = IdsUnder(trie, u)
                /\ IdsUnder(deleted, u) = IdsUnder(trie, u)

(***************************************************************************)
(* C23  Warm start rebuilds from empty: after db_init the index answers    *)
(* every query as the index built from empty out of the persons of the     *)
(* store; what the index held before the call is not returned.             *)
(***************************************************************************)
C23_WarmStartClears ==
    [][ db_init =>
          Answers(trie') = Answers(init_lookup_trie_with_existing_persons(EmptyTrie, get_all_persons(store')))
      ]_vars

(***************************************************************************)
(* C24  Update step order: save_object for a Person reads the old          *)
(* projection, then applies the store mutation, then updates the index; no *)
(* index change happens before the store mutation has been applied.        *)
(***************************************************************************)
\* the entry of the log is a change of the index
IsIndexChange(e) == e[1] \in {"remove", "insert"}

C24_StoreBeforeIndex ==
    /\ log # <<>> => log[1] = <<"read">>
    /\ \A k \in 1..Len(log) :
          IsIndexChange(log[k]) => \E j \in 1..(k - 1) : log[j] = <<"merge">>

(***************************************************************************)
(* C25  Remove everything, then re-add everything: in save_object for a    *)
(* Person every token removal for the old projection happens before the    *)
(* first token insertion for the new one, and every non-empty attribute is *)
(* removed and inserted again, those with an unchanged value included.     *)
(***************************************************************************)
\* the tokens the log removes or inserts, in order
LoggedTokens(kind) ==
    LET es == SelectSeq(log, LAMBDA e : e[1] = kind)
    IN  [k \in 1..Len(es) |-> es[k][2]]

\* the folded non-empty attribute values of p, in the order of the attributes
FoldedTokens(p) ==
    LET vs == SelectSeq(AttrValues(p), LAMBDA v : Truthy(v))
    IN  [k \in 1..Len(vs) |-> lower(vs[k])]

C25_RemoveAllThenAddAll ==
    /\ \A j \in 1..Len(log) : \A k \in 1..Len(log) :
          (log[j][1] = "remove" /\ log[k][1] = "insert") => j < k
    /\ pc \in {"merge", "add", "commit"} => LoggedTokens("remove") = FoldedTokens(cur.old)
    /\ pc = "commit" => LoggedTokens("insert") = FoldedTokens(cur.obj)

\* a save_object stands before its commit; one non-empty attribute of the
\* person is unchanged and another one is changed
C25_Witness ==
    /\ pc = "commit"
    /\ \E a \in 1..NumAttrs :
          Truthy(AttrValues(cur.old)[a]) /\ AttrValues(cur.old)[a] = AttrValues(cur.obj)[a]
    /\ \E a \in 1..NumAttrs : AttrValues(cur.old)[a] # AttrValues(cur.obj)[a]

(***************************************************************************)
(* C26  Old values come from an independent read: the tokens save_object   *)
(* removes for P are those of the values stored for P.id, and the removal  *)
(* therefore targets exactly the tokens inserted at the last index write   *)
(* for P: whenever a save_object(P) may start, a remove_person(old_person) *)
(* that returns leaves no entry of the index that maps P.id.               *)
(***************************************************************************)
C26_RemovalTargetsLastWrite ==
    pc = "idle" =>
        \A id \in DOMAIN store :
            LET r == remove_person(trie, Person(id, store[id]))
            IN  ~r.raised => id \notin IndexedIds(r.trie)

(***************************************************************************)
(* C27  Index completeness (I1): in every state between operations, for    *)
(* every person P of the store and every non-empty name attribute value V  *)
(* of P, the entry of lower(V) exists and maps P.id to the full name of    *)
(* P's attribute values.                                                   *)
(***************************************************************************)
C27_IndexComplete ==
    pc = "idle" =>
        \A id \in DOMAIN store : \A v \in NameValues(store[id]) :
            /\ lower(v) \in TrieKeys(trie)
            /\ id \in IdsUnder(trie, lower(v))
            /\ TrieGet(trie, lower(v))[id] = full_name(Person(id, store[id]))

(***************************************************************************)
(* C28  The result of a query of two or more words w1..wn has as its ids   *)
(* the intersection of the id sets of _find_person_details_by_prefix(wi);  *)
(* the pairs are compared by id alone and never by full_name.              *)
(***************************************************************************)
\* the ids common to the results of all the words ws
RECURSIVE CommonIds(_, _)
CommonIds(T, ws) ==
    IF Len(ws) = 1 THEN Ids(_find_person_details_by_prefix(T, ws[1]))
    ELSE Ids(_find_person_details_by_prefix(T, Head(ws))) \cap CommonIds(T, Tail(ws))

C28_MultiWordIntersection ==
    \A q \in Texts :
        Len(split(q)) >= 2 =>
            Ids(find_person_details_by_name(trie, q).value) = CommonIds(trie, split(q))

\* the words 'a' and 'b' both find one id, with different full names, and
\* the query 'a b' returns the id
C28_Witness ==
    \E e1 \in _find_person_details_by_prefix(trie, <<"a">>) :
    \E e2 \in _find_person_details_by_prefix(trie, <<"b">>) :
        /\ e1.id = e2.id
        /\ e1.full_name # e2.full_name
        /\ e1.id \in Ids(find_person_details_by_name(trie, <<"a", Space, "b">>).value)

(***************************************************************************)
(* C29  Re-insert is idempotent: in every reachable index state a second   *)
(* add_person(P) with the same attribute values leaves the index, and so   *)
(* every query result, unchanged; an add_person with the same id and       *)
(* tokens and another full name replaces the cached name of the id under   *)
(* those tokens and adds no second pair.                                   *)
(***************************************************************************)
C29_ReinsertIdempotent ==
    \A row \in PersonInputs : \A id \in 1..(MaxId + 1) :
        LET P      == Person(id, row)
            Q      == Person(id, LowerRow(row))
            first  == add_person(trie, P)
            second == add_person(first, P)
            other  == add_person(first, Q)
        IN  /\ second = first
            /\ TrieKeys(other) = TrieKeys(first)
            /\ \A u \in TrieKeys(first) : IdsUnder(other, u) = IdsUnder(first, u)
            /\ \A v \in NameValues(row) : TrieGet(other, lower(v))[id] = full_name(Q)
            /\ Cardinality({e \in find_person_details_by_name(other, <<>>).value : e.id = id}) = 1

\* a stored person whose values hold upper-case letters is indexed: adding
\* it again changes nothing, adding it in lower case changes the index
C29_Witness ==
    \E id \in DOMAIN store :
        /\ add_person(trie, Person(id, store[id])) = trie
        /\ add_person(trie, Person(id, LowerRow(store[id]))) # trie

(***************************************************************************)
(* C30  Updates are not atomic for readers without a lock: a query that    *)
(* runs between remove_person(old) and add_person(new) of a save_object    *)
(* can miss the person under a prefix of an attribute the update leaves    *)
(* unchanged; a query that runs once the index work of the save_object is  *)
(* done, as every query does when save_object is one atomic step, never    *)
(* misses it.                                                              *)
(***************************************************************************)
\* the one-word query texts that are prefixes of a non-empty attribute value
\* which the save_object in progress leaves unchanged
UnchangedPrefixes ==
    {q \in Texts : /\ OneWord(q)
                   /\ \E a \in 1..NumAttrs :
                         /\ Truthy(AttrValues(cur.old)[a])
                         /\ AttrValues(cur.old)[a] = AttrValues(cur.obj)[a]
                         /\ IsPrefixOf(q, AttrValues(cur.obj)[a])}

\* the queries that miss the person of the save_object in progress
Missed == {q \in UnchangedPrefixes : cur.obj.id \notin Ids(find_person_details_by_name(trie, q).value)}

C30_AtomicUpdateNeverMisses == pc = "commit" => Missed = {}

\* between the removals and the insertions of a save_object a query for a
\* prefix of an unchanged attribute misses the person
C30_Witness ==
    /\ pc \in {"remove", "merge", "add"}
    /\ LoggedTokens("remove") # <<>>
    /\ Missed # {}

(***************************************************************************)
(* C31  Crash drift is repaired by warm start, as claimed: when the        *)
(* process dies in create_person after the commit and before add_person,   *)
(* the person is in the store and no query returns it; after the start of  *)
(* a new process and db_init's warm start the person is returned for every *)
(* prefix of each of its non-empty name attributes.                        *)
(***************************************************************************)
\* the person of the create_person that the crash has cut short
Crashed == cur.obj

\* between the crash and the new process the person is stored and no entry
\* of the index maps it
DriftAfterCrash ==
    pc = "crashed" =>
        /\ Crashed.id \in DOMAIN store
        /\ Crashed.id \notin IndexedIds(trie)
        /\ \A q \in Texts : Crashed.id \notin Ids(find_person_details_by_name(trie, q).value)

C31_WarmStartRepairsAnyPrefix ==
    /\ DriftAfterCrash
    /\ pc = "started" =>
          \A v \in NameValues(store[Crashed.id]) : \A p \in Texts :
              IsPrefixOf(p, v) =>
                  LET r == find_person_details_by_name(trie, p)
                  IN  r.exc = "none" /\ StoredPair(Crashed.id) \in r.value

(***************************************************************************)
(* C31 amended  The same, for every prefix that is empty or splits into    *)
(* exactly one word.                                                       *)
(***************************************************************************)
C31_WarmStartRepairsOneWord ==
    /\ DriftAfterCrash
    /\ pc = "started" =>
          \A v \in NameValues(store[Crashed.id]) : \A p \in Texts :
              (IsPrefixOf(p, v) /\ (p = <<>> \/ OneWord(p))) =>
                  LET r == find_person_details_by_name(trie, p)
                  IN  r.exc = "none" /\ StoredPair(Crashed.id) \in r.value

\* the new process has warm-started with two stored persons, the second of
\* which is the one the crash left out of the index, and finds it
C31_Witness ==
    /\ pc = "started"
    /\ Cardinality(DOMAIN store) = 2
    /\ Crashed.id = 2
    /\ StoredPair(2) \in find_person_details_by_name(trie, <<"a">>).value

(***************************************************************************)
(* C32  Index add follows id assignment: create_person puts the person     *)
(* into the index only after the commit that assigns the person's id has   *)
(* succeeded; no entry of the index ever maps an unassigned id, and when   *)
(* that commit fails nothing is inserted.                                  *)
(***************************************************************************)
\* this step is a create_person whose commit of line 170 raises
CreateCommitFails == \E row \in PersonInputs : \E g \in GroupInputs : create_person_SQLAlchemyError(row, g)

\* this step is a create_person that returns
CreateReturns == \E row \in PersonInputs : \E g \in GroupInputs : create_person_ok(row, g)

C32_IndexAfterCommit ==
    [][ /\ IndexedIds(trie') \subseteq 1..(nextId' - 1)
        /\ \A id \in IndexedIds(trie') \ IndexedIds(trie) : id \in DOMAIN store'
        /\ CreateReturns => /\ nextId \in DOMAIN store'
                            /\ IndexedIds(trie') \ IndexedIds(trie) = {nextId}
        /\ CreateCommitFails => trie' = trie ]_vars

\* a create_person has failed at its commit while a person was stored and
\* indexed: the id it took is in no entry of the index
C32_Witness ==
    /\ raised = "SQLAlchemyError"
    /\ DOMAIN store = {1}
    /\ nextId = 3
    /\ IndexedIds(trie) = {1}

(***************************************************************************)
(* C33  Empty entries are pruned, as claimed: when no call is in progress, *)
(* no key of the trie maps to an empty mapping from ids to names.          *)
(***************************************************************************)
\* the keys of the trie whose value is an empty dict
DeadKeys(T) == UNION {c.keys : c \in {d \in T : d.vals = EmptyDict}}

C33_NoDeadEntries == pc = "idle" => DeadKeys(trie) = {}

====
